---- MODULE Spec2Model ----
(***************************************************************************)
(* Source resolution of the martin tile server: the shared ID resolver and *)
(* its callers, the payload classifier, Config::finalize, the archive      *)
(* (pmtiles) config resolver and the PostgreSQL table/function discovery.  *)
(*                                                                         *)
(* Strings are TLA+ strings: `\o' is Rust's string concatenation and       *)
(* ToString(k) is the decimal formatting of `{}' for an integer.           *)
(***************************************************************************)
EXTENDS Integers, Sequences, FiniteSets, TLC

VARIABLES
    \* ---- ID resolver (IdResolver: names behind Arc<Mutex<..>>) ----
    names,      \* bound ID -> signature
    lock,       \* holder of the mutex, or NoOne
    pc,         \* per caller: "idle", "waiting", "critical", "release"
    req,        \* per caller: the (id, signature) being resolved
    ret,        \* per caller: the ID computed inside the critical section
    pool,       \* per DB caller: the pool id of its PgConfig
    history,    \* set of finished calls [caller, id, sig, out]
    calls,      \* number of resolve calls started
    \* ---- payload classifier (DataFormat::detect) ----
    data,       \* the byte slice handed to detect
    format,     \* NotRun, a DataFormat variant, or Panic
    \* ---- Config::finalize ----
    config,     \* the parsed Config: [postgres, pmtiles]
    finalized,  \* NotRun, "Ok", "NoSources" or "PgError"
    \* ---- archive group: file_config::resolve_int ----
    arcConfig,  \* the caller's FileConfigEnum (config: &mut FileConfigEnum)
    arc,        \* the locals of resolve_int and the point it has reached
    arcOut,     \* NotRun, or the Result<Sources, FileError> it returned
    arcRun,     \* 1 for the first resolution, 2 for the one on the rewritten config
    arcFirst,   \* what the first resolution returned and wrote back
    broken,     \* the files PmtSource::new cannot open
    \* ---- DB group: pg::configurator::resolve_pg_data ----
    pgConfig,   \* the PgConfig: declared tables and functions, flags, default_srid
    pgDb,       \* what introspection finds: [tables, functions]
    pgTask,     \* the two futures of try_join: [tables, functions], each
                \* "query" (awaiting introspection) or its result
    pgOut,      \* NotRun, or the result of resolve_pg_data
    pgRun,      \* 1 for the first run, 2 for the repeated one
    pgFirst,    \* the result of the first run
    \* ---- PgConfigBuilder::finalize and the persisted config ----
    pgBuilder,  \* the PgConfigBuilder the PgConfig was finalized from
    pgReparsed, \* None, or the PgConfig finalized from the persisted config
    \* ---- Config::resolve: the DB group and the archive group joined ----
    resConfig,  \* the Config as it was given: [postgres, pmtiles]
    resOut,     \* NotRun, or the Result<Sources> of Config::resolve
    resRun,     \* 1 for the first run, 2 for the repeated one
    resFirst,   \* the result of the first run
    \* ---- Source::get_tile ----
    tileReq,    \* the source asked and the tile requested
    tileOut,    \* NotRun, or the Result<Tile> returned
    \* ---- tile requests of DB sources on one connection pool ----
    connIdle,   \* the connections that are in the pool
    connTask    \* per request: the point it has reached and the connection it holds

idrVars == <<names, lock, pc, req, ret, pool, history, calls>>
detVars == <<data, format>>
finVars == <<config, finalized>>

arcVars == <<arcConfig, arc, arcOut, arcRun, arcFirst, broken>>

pgVars  == <<pgConfig, pgDb, pgTask, pgOut, pgRun, pgFirst>>

flagVars == <<pgBuilder, pgReparsed>>
resVars  == <<resConfig, resOut, resRun, resFirst>>
tileVars == <<tileReq, tileOut>>
connVars == <<connIdle, connTask>>

vars == <<idrVars, detVars, finVars, arcVars, pgVars, flagVars, resVars, tileVars, connVars>>

nonIdrVars == <<detVars, finVars, arcVars, pgVars, flagVars, resVars, tileVars, connVars>>
nonDetVars == <<idrVars, finVars, arcVars, pgVars, flagVars, resVars, tileVars, connVars>>
nonFinVars == <<idrVars, detVars, arcVars, pgVars, flagVars, resVars, tileVars, connVars>>
\* the archive and DB groups use the resolver's bindings and nothing else of it
idrRest    == <<lock, pc, req, ret, pool, history, calls>>
nonArcVars == <<idrRest, detVars, finVars, pgVars, flagVars, resVars, tileVars, connVars>>
nonPgVars  == <<idrRest, detVars, finVars, arcVars, flagVars, resVars, tileVars, connVars>>
nonResVars == <<idrRest, detVars, finVars, flagVars, tileVars, connVars>>
nonConnVars == <<idrVars, detVars, finVars, arcVars, pgVars, flagVars, resVars, tileVars>>
nonTileVars == <<idrVars, detVars, finVars, arcVars, pgVars, flagVars, resVars, connVars>>

----------------------------------------------------------------------------
(* Bounds *)

MaxCalls == 3
MaxPad == 8
MaxPaths == 2
MaxDeclared == 2

----------------------------------------------------------------------------
(* ID resolver *)

NoOne == "none"
NoReq == [id |-> "", sig |-> ""]

\* Callers of Config::resolve: one future per postgres entry and one for pmtiles,
\* each holding idr.clone() (the same Arc<Mutex<names>>).
PgCallers  == {"pg1", "pg2"}
PmtCallers == {"pmt"}
Callers    == PgCallers \cup PmtCallers

PoolIds   == {"db1", "db2"}
ReqIds    == {"t", "t.1"}
Schemas   == {"s"}
Tables    == {"t", "u"}
Geoms     == {"g"}
CanPaths  == {"/d/t.pmtiles", "/e/t.pmtiles"}

\* TableInfo::format_id: format!("{}.{}.{}", schema, table, geometry_column)
format_id(inf) == inf.schema \o "." \o inf.table \o "." \o inf.geometry_column

\* PgBuilder::resolve_id: format!("{}.{}", self.pool.get_id(), src_inf.format_id())
pg_signature(pool_id, fid) == pool_id \o "." \o fid

\* "<id>.<k>"
Suffixed(id, k) == id \o "." \o ToString(k)

RECURSIVE FirstUnseen(_, _, _)
FirstUnseen(nm, id, k) ==
    IF Suffixed(id, k) \notin DOMAIN nm THEN k ELSE FirstUnseen(nm, id, k + 1)

\* A suffix search that starts at 0 instead of 1.
FirstUnseenFromZero(nm, id) == FirstUnseen(nm, id, 0)

\* The first index tried for a suffix.
FirstSuffix(nm, id) == FirstUnseen(nm, id, 1)

\* A resolver without collision handling.
ResolveOutVerbatim(nm, id, sig) == id

\* IdResolver::resolve, the ID returned for (id, sig) when the bindings are nm:
\* unseen -> verbatim; bound to the same signature -> verbatim; otherwise
\* id.1, id.2, ... until an unseen ID is found.
ResolveOut(nm, id, sig) ==
    IF id \notin DOMAIN nm THEN id
    ELSE IF nm[id] = sig THEN id
    ELSE Suffixed(id, FirstSuffix(nm, id))

\* The bindings after the returned ID has been remembered.
Bind(nm, id, sig) ==
    [k \in (DOMAIN nm) \cup {id} |-> IF k = id THEN sig ELSE nm[k]]

EmptyNames == [k \in {} |-> ""]

NotRun == "not run"

\* The parts of the state a specification does not use stay at these values.
IdrIdle ==
    /\ names = EmptyNames
    /\ lock = NoOne
    /\ pc = [c \in Callers |-> "idle"]
    /\ req = [c \in Callers |-> NoReq]
    /\ ret = [c \in Callers |-> ""]
    /\ pool = [c \in PgCallers |-> "db1"]
    /\ history = {}
    /\ calls = 0

DetIdle == data = <<>> /\ format = NotRun

ArcIdle ==
    /\ arcConfig = [tag |-> "None"]
    /\ arc = [pc |-> "idle"]
    /\ arcOut = NotRun
    /\ arcRun = 0
    /\ arcFirst = [tag |-> "None"]
    /\ broken = {}

PgIdle ==
    /\ pgConfig = [tag |-> "None"]
    /\ pgDb = [tag |-> "None"]
    /\ pgTask = [tag |-> "None"]
    /\ pgOut = [tag |-> "NotRun"]
    /\ pgRun = 0
    /\ pgFirst = [tag |-> "None"]

FlagIdle == pgBuilder = [tag |-> "None"] /\ pgReparsed = [tag |-> "None"]

ResIdle ==
    /\ resConfig = [tag |-> "None"]
    /\ resOut = [tag |-> "NotRun"]
    /\ resRun = 0
    /\ resFirst = [tag |-> "None"]

TileIdle == tileReq = [tag |-> "None"] /\ tileOut = [tag |-> "NotRun"]

ConnIdle == connIdle = {} /\ connTask = <<>>

FinIdle == config = [postgres |-> [tag |-> "None"], pmtiles |-> [tag |-> "None"]] /\ finalized = NotRun

IdrInit ==
    /\ names = EmptyNames
    /\ lock = NoOne
    /\ pc = [c \in Callers |-> "idle"]
    /\ req = [c \in Callers |-> NoReq]
    /\ ret = [c \in Callers |-> ""]
    /\ pool \in [PgCallers -> PoolIds]
    /\ history = {}
    /\ calls = 0
    /\ DetIdle /\ FinIdle /\ ArcIdle /\ PgIdle /\ FlagIdle /\ ResIdle /\ TileIdle /\ ConnIdle

\* PgBuilder::resolve_id(id, src_inf) entered by a DB group.
PgResolveId(c) ==
    /\ c \in PgCallers
    /\ pc[c] = "idle"
    /\ calls < MaxCalls
    /\ \E id \in ReqIds, s \in Schemas, t \in Tables, g \in Geoms :
         req' = [req EXCEPT ![c] =
                   [id |-> id,
                    sig |-> pg_signature(pool[c], format_id(
                              [schema |-> s, table |-> t, geometry_column |-> g]))]]
    /\ pc' = [pc EXCEPT ![c] = "waiting"]
    /\ calls' = calls + 1
    /\ UNCHANGED <<names, lock, ret, pool, history, nonIdrVars>>

\* idr.resolve(&id, can.to_string_lossy().to_string()) entered by the archive group.
FileResolveId(c) ==
    /\ c \in PmtCallers
    /\ pc[c] = "idle"
    /\ calls < MaxCalls
    /\ \E id \in ReqIds, can \in CanPaths :
         req' = [req EXCEPT ![c] = [id |-> id, sig |-> can]]
    /\ pc' = [pc EXCEPT ![c] = "waiting"]
    /\ calls' = calls + 1
    /\ UNCHANGED <<names, lock, ret, pool, history, nonIdrVars>>

\* self.names.lock()
Acquire(c) ==
    /\ pc[c] = "waiting"
    /\ lock = NoOne
    /\ lock' = c
    /\ pc' = [pc EXCEPT ![c] = "critical"]
    /\ UNCHANGED <<names, req, ret, pool, history, calls, nonIdrVars>>

\* The body of resolve under the lock.
Critical(c) ==
    /\ pc[c] = "critical"
    /\ lock = c
    /\ LET out == ResolveOut(names, req[c].id, req[c].sig) IN
         /\ ret' = [ret EXCEPT ![c] = out]
         /\ names' = Bind(names, out, req[c].sig)
    /\ pc' = [pc EXCEPT ![c] = "release"]
    /\ UNCHANGED <<lock, req, pool, history, calls, nonIdrVars>>

\* The guard is dropped and the ID returned to the caller.
Release(c) ==
    /\ pc[c] = "release"
    /\ lock' = NoOne
    /\ history' = history \cup
         {[caller |-> c, id |-> req[c].id, sig |-> req[c].sig, out |-> ret[c]]}
    /\ pc' = [pc EXCEPT ![c] = "idle"]
    /\ req' = [req EXCEPT ![c] = NoReq]
    /\ ret' = [ret EXCEPT ![c] = ""]
    /\ UNCHANGED <<names, pool, calls, nonIdrVars>>

IdrNext ==
    \/ \E c \in Callers : PgResolveId(c)
    \/ \E c \in Callers : FileResolveId(c)
    \/ \E c \in Callers : Acquire(c)
    \/ \E c \in Callers : Critical(c)
    \/ \E c \in Callers : Release(c)

Spec == IdrInit /\ [][IdrNext]_vars

----------------------------------------------------------------------------
(* Claims about the ID resolver *)

\* C1: after any sequence of resolve calls on the shared resolver no ID has been
\* returned for two different signatures: returned ID -> signature is a function,
\* and it is the binding the resolver remembers.
C1_IdToSignatureIsFunction ==
    /\ \A h1, h2 \in history : h1.out = h2.out => h1.sig = h2.sig
    /\ \A h \in history : h.out \in DOMAIN names /\ names[h.out] = h.sig

\* C1 witness: a DB source and an archive source requested the same ID and both
\* calls have returned.
C1_Witness ==
    \E h1, h2 \in history :
        /\ h1.caller \in PgCallers /\ h2.caller \in PmtCallers
        /\ h1.id = h2.id /\ h1.out # h2.out

\* C2: resolve(id, sig) called again with the same (id, sig) returns the same
\* output as the first call for that pair, whatever happened in between.
C2_Idempotent ==
    \A h1, h2 \in history :
        (h1.id = h2.id /\ h1.sig = h2.sig) => h1.out = h2.out

\* C3: a resolve of an unseen id returns it verbatim; a resolve of an id bound to
\* a different signature returns id.k for the smallest k >= 1 with id.k not yet
\* bound; the returned ID is then bound to the caller's signature, and no other
\* binding changes.
C3_Collision ==
    [][\A c \in Callers :
         (pc[c] = "critical" /\ pc'[c] = "release") =>
            LET id  == req[c].id
                sig == req[c].sig
                out == ret'[c]
            IN  /\ (id \notin DOMAIN names => out = id)
                /\ (id \in DOMAIN names /\ names[id] # sig =>
                      \E k \in 1..(Cardinality(DOMAIN names) + 1) :
                         /\ out = Suffixed(id, k)
                         /\ out \notin DOMAIN names
                         /\ \A j \in 1..(k - 1) : Suffixed(id, j) \in DOMAIN names)
                /\ out \in DOMAIN names' /\ names'[out] = sig
                /\ \A k \in DOMAIN names : k # out => names'[k] = names[k]]_vars

\* C3 witness: a collision was resolved to the second suffix because id.1 was
\* already taken.
C3_Witness ==
    \E h \in history :
        /\ h.out = Suffixed(h.id, 2)
        /\ Suffixed(h.id, 1) \in DOMAIN names
        /\ names[h.id] # h.sig

\* C4: concurrent callers that pass the same (id, signature) observe the same
\* returned ID in every interleaving, and no interleaving binds one ID to two
\* signatures.
C4_ConcurrentSame ==
    /\ \A h1, h2 \in history :
          (h1.caller # h2.caller /\ h1.id = h2.id /\ h1.sig = h2.sig)
             => h1.out = h2.out
    /\ \A h1, h2 \in history :
          (h1.caller # h2.caller /\ h1.out = h2.out) => h1.sig = h2.sig

----------------------------------------------------------------------------
(* Payload classifier: martin-tile-utils DataFormat::detect *)

Panic == "panic"

DataFormat ==
    {"Png", "Jpeg", "Webp", "Gif", "Json", "Mvt", "GzipMvt", "ZlibMvt", "Unknown"}

SigGzip == <<31, 139>>                               \* b"\x1f\x8b"
SigZlib == <<120, 156>>                              \* b"\x78\x9c"
SigPng  == <<137, 80, 78, 71, 13, 10, 26, 10>>       \* b"\x89\x50\x4E\x47\x0D\x0A\x1A\x0A"
SigGif  == <<71, 73, 70, 56, 57, 97>>                \* b"\x47\x49\x46\x38\x39\x61"
SigJpeg == <<255, 216, 255>>                         \* b"\xFF\xD8\xFF"
SigRiff == <<82, 73, 70, 70>>                        \* b"RIFF"
SigWebp == <<87, 69, 66, 80>>                        \* b"WEBP"
SigJson == <<123>>                                   \* b"{"

OutOfRange == "out of range"

\* &v[a..b]: the bytes a..b-1, or a panic when b exceeds the length of the slice.
Slice(v, a, b) == IF b > Len(v) THEN OutOfRange ELSE SubSeq(v, a + 1, b)

\* DataFormat::detect: the match arms are tried in order and each guard indexes
\* the slice before it compares.
detect(v) ==
    IF Slice(v, 0, 2) = OutOfRange THEN Panic
    ELSE IF Slice(v, 0, 2) = SigGzip THEN "GzipMvt"
    ELSE IF Slice(v, 0, 2) = SigZlib THEN "ZlibMvt"
    ELSE IF Slice(v, 0, 8) = OutOfRange THEN Panic
    ELSE IF Slice(v, 0, 8) = SigPng THEN "Png"
    ELSE IF Slice(v, 0, 6) = OutOfRange THEN Panic
    ELSE IF Slice(v, 0, 6) = SigGif THEN "Gif"
    ELSE IF Slice(v, 0, 3) = OutOfRange THEN Panic
    ELSE IF Slice(v, 0, 3) = SigJpeg THEN "Jpeg"
    ELSE IF Slice(v, 0, 4) = OutOfRange THEN Panic
    ELSE IF Slice(v, 0, 4) = SigRiff /\ Slice(v, 8, 12) = OutOfRange THEN Panic
    ELSE IF Slice(v, 0, 4) = SigRiff /\ Slice(v, 8, 12) = SigWebp THEN "Webp"
    ELSE IF Slice(v, 0, 1) = OutOfRange THEN Panic
    ELSE IF Slice(v, 0, 1) = SigJson THEN "Json"
    ELSE "Unknown"

\* Byte strings the classifier is tried on: every prefix of a sample, followed by
\* up to MaxPad zero bytes.
SampleWebp    == SigRiff \o <<36, 0, 0, 0>> \o SigWebp
SampleRiffWav == SigRiff \o <<36, 0, 0, 0>> \o <<87, 65, 86, 69>>
Samples ==
    {SigGzip, SigZlib, SigPng, SigGif, SigJpeg, SampleWebp, SampleRiffWav,
     SigJson, <<10, 3>>}

Zeros(n) == [i \in 1..n |-> 0]

DetectInputs ==
    UNION {{SubSeq(s, 1, n) \o Zeros(k) : n \in 0..Len(s), k \in 0..MaxPad} :
           s \in Samples}

DetInit ==
    /\ data \in DetectInputs
    /\ format = NotRun
    /\ IdrIdle /\ FinIdle /\ ArcIdle /\ PgIdle /\ FlagIdle /\ ResIdle /\ TileIdle /\ ConnIdle

Detect ==
    /\ format = NotRun
    /\ format' = detect(data)
    /\ UNCHANGED <<data, nonDetVars>>

DetNext == Detect

SpecDetect == DetInit /\ [][DetNext]_vars

\* The signature table of the classifier, read as "the first row whose signature
\* the slice contains": a row longer than the slice does not match.
HasAt(v, off, sig) ==
    Len(v) >= off + Len(sig) /\ SubSeq(v, off + 1, off + Len(sig)) = sig

TableFormat(v) ==
    IF HasAt(v, 0, SigGzip) THEN "GzipMvt"
    ELSE IF HasAt(v, 0, SigZlib) THEN "ZlibMvt"
    ELSE IF HasAt(v, 0, SigPng) THEN "Png"
    ELSE IF HasAt(v, 0, SigGif) THEN "Gif"
    ELSE IF HasAt(v, 0, SigJpeg) THEN "Jpeg"
    ELSE IF HasAt(v, 0, SigRiff) /\ HasAt(v, 8, SigWebp) THEN "Webp"
    ELSE IF HasAt(v, 0, SigJson) THEN "Json"
    ELSE "Unknown"

\* C5: detect returns some DataFormat variant for every byte slice of every
\* length, the empty slice and slices of 1 to 11 bytes included; it never panics.
C5_Total == format # NotRun => format \in DataFormat

\* C6: the classifier returns the format of the first matching row of the table
\* (gzip, zlib, PNG, GIF89a, JPEG, RIFF..WEBP, '{'), and the result depends only
\* on the input bytes. Stated for the slices that contain the signature of a row.
C6_TableOrder ==
    (format # NotRun /\ TableFormat(data) # "Unknown") => format = TableFormat(data)

\* C7: a slice shorter than a candidate signature skips only that candidate: the
\* 1-byte slice '{' gives Json, the 3-byte slice FF D8 FF gives Jpeg, the 2-byte
\* slice 1F 8B gives GzipMvt, and a slice shorter than 12 bytes that matches no
\* candidate it is long enough for gives Unknown.
C7_ShortSkips ==
    format # NotRun =>
        /\ (data = SigJson => format = "Json")
        /\ (data = SigJpeg => format = "Jpeg")
        /\ (data = SigGzip => format = "GzipMvt")
        /\ (Len(data) < 12 /\ TableFormat(data) = "Unknown" => format = "Unknown")

\* Where the slice is long enough for every index the arms tried before the
\* matching one take, the code agrees with the table.
DetectAgreesWhenLongEnough ==
    (format # NotRun /\ format # Panic) => format = TableFormat(data)

----------------------------------------------------------------------------
(* Config::finalize *)

\* Option<T>
None    == [tag |-> "None"]
Some(x) == [tag |-> "Some", val |-> x]

\* OneOrMany<T>: One(T) | Many(Vec<T>), and its iterator
One(x)   == [tag |-> "One", items |-> <<x>>]
Many(xs) == [tag |-> "Many", items |-> xs]

\* OneOrMany::is_empty: One(_) is never empty, Many(v) is empty when v is.
OneOrMany_is_empty(v) == IF v.tag = "One" THEN FALSE ELSE v.items = <<>>

\* FileConfigEnum: Path(PathBuf) | Paths(Vec<PathBuf>) | Config(FileConfig)
FcePath(p)   == [tag |-> "Path", path |-> p]
FcePaths(ps) == [tag |-> "Paths", paths |-> ps]
FceConfig(c) == [tag |-> "Config", cfg |-> c]

\* FileConfig::is_empty
FileConfig_is_empty(c) == c.paths = None /\ c.sources = None

\* FileConfigEnum::is_empty
FileConfigEnum_is_empty(e) ==
    CASE e.tag = "Path"   -> FALSE
      [] e.tag = "Paths"  -> e.paths = <<>>
      [] e.tag = "Config" -> FileConfig_is_empty(e.cfg)

\* PgConfigBuilder::finalize: fails when the connection string is not set.
PgFinalizeOk(pg) == pg.connection_string # None

\* Config::finalize
finalize(c) ==
    IF c.postgres # None
       /\ \E i \in 1..Len(c.postgres.val.items) :
             ~PgFinalizeOk(c.postgres.val.items[i])
    THEN "PgError"
    ELSE LET any_pg  == IF c.postgres # None
                        THEN ~OneOrMany_is_empty(c.postgres.val) ELSE FALSE
             any_pmt == IF c.pmtiles # None
                        THEN ~FileConfigEnum_is_empty(c.pmtiles.val) ELSE FALSE
         IN  IF any_pg \/ any_pmt THEN "Ok" ELSE "NoSources"

\* The configs finalize is tried on.
PgEntries == {[connection_string |-> cs] : cs \in {None, Some("postgres://db1")}}
PgGroups ==
    {None, Some(Many(<<>>))}
        \cup {Some(One(pg)) : pg \in PgEntries}
        \cup {Some(Many(<<pg>>)) : pg \in PgEntries}
        \cup {Some(Many(<<p1, p2>>)) : p1 \in PgEntries, p2 \in PgEntries}

FinPathLists ==
    {None, Some(Many(<<>>)), Some(One("/d")), Some(Many(<<"/d", "/f.pmtiles">>))}
FinSourceMaps ==
    {None, Some([k \in {} |-> ""]), Some([k \in {"a"} |-> "/f.pmtiles"])}
PmtGroups ==
    {None, Some(FcePath("/f.pmtiles")), Some(FcePaths(<<>>)), Some(FcePaths(<<"/d">>))}
        \cup {Some(FceConfig([paths |-> ps, sources |-> ss, unrecognized |-> {}])) :
                 ps \in FinPathLists, ss \in FinSourceMaps}

FinInit ==
    /\ config \in [postgres : PgGroups, pmtiles : PmtGroups]
    /\ finalized = NotRun
    /\ IdrIdle /\ DetIdle /\ ArcIdle /\ PgIdle /\ FlagIdle /\ ResIdle /\ TileIdle /\ ConnIdle

Finalize ==
    /\ finalized = NotRun
    /\ finalized' = finalize(config)
    /\ UNCHANGED <<config, nonFinVars>>

FinNext == Finalize

SpecFinalize == FinInit /\ [][FinNext]_vars

\* "Present and non-empty": the group is given and holds at least one entry.
PgGroupHasEntries(c) == c.postgres # None /\ c.postgres.val.items # <<>>

PmtGroupHasEntries(c) ==
    /\ c.pmtiles # None
    /\ LET e == c.pmtiles.val IN
       CASE e.tag = "Path"   -> TRUE
         [] e.tag = "Paths"  -> e.paths # <<>>
         [] e.tag = "Config" ->
              \/ (e.cfg.paths # None /\ e.cfg.paths.val.items # <<>>)
              \/ (e.cfg.sources # None /\ DOMAIN e.cfg.sources.val # {})

PgAllFinalize(c) ==
    c.postgres = None
        \/ \A i \in 1..Len(c.postgres.val.items) :
              PgFinalizeOk(c.postgres.val.items[i])

\* C8: finalize succeeds iff at least one of the postgres and pmtiles groups is
\* present and holds an entry; with both absent or empty (an empty postgres
\* list, an empty pmtiles path list, a pmtiles block whose paths and sources
\* contain no entries) it fails with NoSources. Stated for the configs whose
\* postgres entries all finalize.
C8_NoSourcesIffEmpty ==
    (finalized # NotRun /\ PgAllFinalize(config)) =>
        IF PgGroupHasEntries(config) \/ PmtGroupHasEntries(config)
        THEN finalized = "Ok"
        ELSE finalized = "NoSources"

\* Where a pmtiles block counts as empty only when it names neither paths nor
\* sources, the code decides as C8 says.
FinalizeDecidesByPresence ==
    (finalized # NotRun /\ PgAllFinalize(config)) =>
        (finalized = "Ok" <=>
            \/ PgGroupHasEntries(config)
            \/ (config.pmtiles # None /\ ~FileConfigEnum_is_empty(config.pmtiles.val)))

----------------------------------------------------------------------------
(* Archive group: file_config::resolve_int (pmtiles::config::resolve is the   *)
(* same body with the extension fixed to "pmtiles")                           *)

\* FileConfigSrc: Path(PathBuf) | Obj(FileConfigSource { path })
SrcPath(p) == [tag |-> "Path", path |-> p]
SrcObj(p)  == [tag |-> "Obj", path |-> p]

Ok(v)  == [tag |-> "Ok", val |-> v]
Err(e) == [tag |-> "Err", err |-> e]

EmptyMap == [k \in {} |-> ""]

MapPut(m, k, v) == [x \in (DOMAIN m) \cup {k} |-> IF x = k THEN v ELSE m[x]]

\* The filesystem the resolver runs on: two directories; /d/l.pmtiles is a
\* symbolic link to /e/a.pmtiles and /d/./a.pmtiles another spelling of
\* /d/a.pmtiles.
FsDirs  == {"/d", "/e"}
FsFiles == {"/d/a.pmtiles", "/d/./a.pmtiles", "/d/c.txt", "/d/l.pmtiles", "/e/a.pmtiles"}

is_dir(p)  == p \in FsDirs
is_file(p) == p \in FsFiles
Exists(p)  == is_dir(p) \/ is_file(p)

\* Path::canonicalize of a path that exists
canonicalize(p) ==
    CASE p = "/d/./a.pmtiles" -> "/d/a.pmtiles"
      [] p = "/d/l.pmtiles"   -> "/e/a.pmtiles"
      [] OTHER                -> p

\* Path::read_dir: the paths of the entries
read_dir(d) ==
    CASE d = "/d" -> {"/d/a.pmtiles", "/d/c.txt", "/d/l.pmtiles"}
      [] d = "/e" -> {"/e/a.pmtiles"}
      [] OTHER    -> {}

extension(p) == IF p = "/d/c.txt" THEN "txt" ELSE "pmtiles"

file_stem(p) ==
    CASE p \in {"/d/a.pmtiles", "/d/./a.pmtiles", "/e/a.pmtiles"} -> "a"
      [] p = "/d/l.pmtiles" -> "l"
      [] p = "/d/c.txt"     -> "c"
      [] OTHER              -> "_unknown"

ExpectedExtension == "pmtiles"

\* The entries of a scanned directory that pass the filter of resolve_int.
ScanDir(d) == {f \in read_dir(d) : extension(f) = ExpectedExtension /\ is_file(f)}

\* OneOrMany::new_opt: nothing for an empty list, One for a single item.
new_opt(xs) ==
    IF xs = <<>> THEN None
    ELSE IF Len(xs) = 1 THEN Some(One(xs[1])) ELSE Some(Many(xs))

\* create_source(id, path): PmtSource::new fails on a file it cannot open.
CreateFails(path) == canonicalize(path) \in broken

\* The config written back without the directories.
ArcRewriteNoPaths(directories, configs, unrecognized) ==
    FceConfig([paths |-> None, sources |-> Some(configs),
               unrecognized |-> unrecognized])

\* The config written back with the bindings dropped.
ArcRewriteDropsSources(directories, configs, unrecognized) ==
    FceConfig([paths |-> new_opt(directories), sources |-> None,
               unrecognized |-> unrecognized])

\* *config = FileConfigEnum::Config(FileConfig { paths, sources, unrecognized })
ArcRewrite(directories, configs, unrecognized) ==
    FceConfig([paths |-> new_opt(directories), sources |-> Some(configs),
               unrecognized |-> unrecognized])

\* The locals of resolve_int before it has taken the config.
ArcFresh == [pc |-> "start"]

\* let cfg = match config { .. mem::take(..) .. }: the FileConfig taken out
TakenConfig(e) ==
    CASE e.tag = "Path"   -> [paths |-> Some(One(e.path)), sources |-> None,
                              unrecognized |-> {}]
      [] e.tag = "Paths"  -> [paths |-> Some(Many(e.paths)), sources |-> None,
                              unrecognized |-> {}]
      [] e.tag = "Config" -> e.cfg

\* ... and what mem::take leaves behind in the caller's config
LeftBehind(e) ==
    CASE e.tag = "Path"   -> FcePath("")
      [] e.tag = "Paths"  -> FcePaths(<<>>)
      [] e.tag = "Config" -> FceConfig([paths |-> None, sources |-> None,
                                        unrecognized |-> {}])

\* resolve_int, lines 120-135: take the config, create the empty collections.
ArcStart ==
    /\ arc.pc = "start"
    /\ LET cfg == TakenConfig(arcConfig) IN
         arc' = [pc          |-> "run",
                 sources     |-> IF cfg.sources # None THEN cfg.sources.val ELSE EmptyMap,
                 srcLeft     |-> IF cfg.sources # None THEN DOMAIN cfg.sources.val ELSE {},
                 paths       |-> IF cfg.paths # None THEN cfg.paths.val.items ELSE <<>>,
                 pathsLeft   |-> IF cfg.paths # None THEN cfg.paths.val.items ELSE <<>>,
                 dirFiles    |-> {},
                 isDir       |-> FALSE,
                 results     |-> EmptyMap,
                 configs     |-> EmptyMap,
                 files       |-> {},
                 directories |-> <<>>,
                 warned      |-> {},
                 unrecognized |-> cfg.unrecognized]
    /\ arcConfig' = LeftBehind(arcConfig)
    /\ UNCHANGED <<names, arcOut, arcRun, arcFirst, broken, nonArcVars>>

ArcFail(e) ==
    /\ arc' = [pc |-> "failed"]
    /\ arcOut' = Err(e)

\* One iteration of `for (id, source) in sources` (lines 138-156); a HashMap is
\* iterated in no particular order.
ArcSource ==
    /\ arc.pc = "run"
    /\ arc.srcLeft # {}
    /\ \E id \in arc.srcLeft :
         LET source == arc.sources[id]
             can    == canonicalize(source.path)
             id2    == ResolveOut(names, id, can)
         IN  IF ~Exists(source.path)
             THEN ArcFail([kind |-> "IoError", path |-> source.path])
                  /\ UNCHANGED names
             ELSE IF ~is_file(can)
             THEN ArcFail([kind |-> "InvalidSourceFilePath", id |-> id, path |-> can])
                  /\ UNCHANGED names
             ELSE /\ names' = Bind(names, id2, can)
                  /\ IF CreateFails(source.path)
                     THEN ArcFail([kind |-> "IoError", path |-> source.path])
                     ELSE /\ arc' = [arc EXCEPT
                                       !.srcLeft = @ \ {id},
                                       !.files   = @ \cup {can},
                                       !.configs = MapPut(@, id2, source),
                                       !.results = MapPut(@, id2, source.path)]
                          /\ UNCHANGED arcOut
    /\ UNCHANGED <<arcConfig, arcRun, arcFirst, broken, nonArcVars>>

\* The head of one iteration of `for path in paths` (lines 160-177).
ArcPath ==
    /\ arc.pc = "run"
    /\ arc.srcLeft = {} /\ arc.dirFiles = {}
    /\ arc.pathsLeft # <<>>
    /\ LET path == Head(arc.pathsLeft) IN
         IF is_dir(path)
         THEN /\ arc' = [arc EXCEPT
                           !.pathsLeft   = Tail(@),
                           !.isDir       = TRUE,
                           !.directories = Append(@, path),
                           !.dirFiles    = ScanDir(path)]
              /\ UNCHANGED arcOut
         ELSE IF is_file(path)
         THEN /\ arc' = [arc EXCEPT
                           !.pathsLeft = Tail(@),
                           !.isDir     = FALSE,
                           !.dirFiles  = {path}]
              /\ UNCHANGED arcOut
         ELSE ArcFail([kind |-> "InvalidFilePath",
                       path |-> IF Exists(path) THEN canonicalize(path) ELSE path])
    /\ UNCHANGED <<names, arcConfig, arcRun, arcFirst, broken, nonArcVars>>

\* A seen-set that is never consulted.
SeenNever(files, can) == FALSE

\* Whether a canonical path is already in the seen-set.
SeenBefore(files, can) == can \in files

\* One iteration of `for path in dir_files` (lines 178-201); read_dir yields the
\* entries in no particular order.
ArcFile ==
    /\ arc.pc = "run"
    /\ arc.srcLeft = {}
    /\ arc.dirFiles # {}
    /\ \E path \in arc.dirFiles :
         LET can == canonicalize(path)
             id  == file_stem(path)
             id2 == ResolveOut(names, id, can)
         IN  IF SeenBefore(arc.files, can)
             THEN /\ arc' = [arc EXCEPT
                               !.dirFiles = @ \ {path},
                               !.warned   = IF arc.isDir THEN @ ELSE @ \cup {can}]
                  /\ UNCHANGED <<names, arcOut>>
             ELSE /\ names' = Bind(names, id2, can)
                  /\ IF CreateFails(path)
                     THEN ArcFail([kind |-> "IoError", path |-> path])
                     ELSE /\ arc' = [arc EXCEPT
                                       !.dirFiles = @ \ {path},
                                       !.files    = @ \cup {can},
                                       !.configs  = MapPut(@, id2, SrcPath(path)),
                                       !.results  = MapPut(@, id2, path)]
                          /\ UNCHANGED arcOut
    /\ UNCHANGED <<arcConfig, arcRun, arcFirst, broken, nonArcVars>>

\* Lines 205-211: write the structured config back and return the sources.
ArcFinish ==
    /\ arc.pc = "run"
    /\ arc.srcLeft = {} /\ arc.dirFiles = {} /\ arc.pathsLeft = <<>>
    /\ arcConfig' = ArcRewrite(arc.directories, arc.configs, arc.unrecognized)
    /\ arcOut' = Ok(arc.results)
    /\ arc' = [pc |-> "done", warned |-> arc.warned]
    /\ UNCHANGED <<names, arcRun, arcFirst, broken, nonArcVars>>

\* The resolver is applied to the config the first run wrote back, with the same
\* ID resolver or a fresh one; the filesystem is the same.
ArcAgain ==
    /\ arc.pc = "done"
    /\ arcRun = 1
    /\ arcFirst' = Some([out |-> arcOut, config |-> arcConfig])
    /\ arcRun' = 2
    /\ arc' = ArcFresh
    /\ arcOut' = NotRun
    /\ names' \in {names, EmptyNames}
    /\ UNCHANGED <<arcConfig, broken, nonArcVars>>

\* The configs the archive group is given.
ArcPathEntries == {"/d", "/e", "/e/a.pmtiles", "/d/c.txt", "/nope"}
ArcPathSeqs == UNION {[1..k -> ArcPathEntries] : k \in 0..MaxPaths}

ArcSrcIds == {"a", "a.1"}
ArcSrcValues ==
    {SrcPath("/d/a.pmtiles"), SrcObj("/d/./a.pmtiles"), SrcPath("/e/a.pmtiles"),
     SrcPath("/d"), SrcPath("/nope")}
ArcSrcMaps == UNION {[ids -> ArcSrcValues] : ids \in SUBSET ArcSrcIds}

ArcConfigs ==
    {FcePath(p) : p \in ArcPathEntries}
        \cup {FcePaths(ps) : ps \in ArcPathSeqs}
        \cup {FceConfig([paths |-> ps, sources |-> ss, unrecognized |-> {"extra"}]) :
                 ps \in {None} \cup {Some(One(p)) : p \in ArcPathEntries}
                               \cup {Some(Many(q)) : q \in ArcPathSeqs},
                 ss \in {None} \cup {Some(m) : m \in ArcSrcMaps}}

\* Bindings another group may have left in the shared resolver.
ArcEarlierNames == {EmptyNames, [k \in {"a"} |-> "db1.s.a.g"]}

ArcInit ==
    /\ arcConfig \in ArcConfigs
    /\ arc = ArcFresh
    /\ arcOut = NotRun
    /\ arcRun = 1
    /\ arcFirst = None
    /\ broken \in SUBSET {"/e/a.pmtiles"}
    /\ names \in ArcEarlierNames
    /\ lock = NoOne
    /\ pc = [c \in Callers |-> "idle"]
    /\ req = [c \in Callers |-> NoReq]
    /\ ret = [c \in Callers |-> ""]
    /\ pool = [c \in PgCallers |-> "db1"]
    /\ history = {}
    /\ calls = 0
    /\ DetIdle /\ FinIdle /\ PgIdle /\ FlagIdle /\ ResIdle /\ TileIdle /\ ConnIdle

ArcNext ==
    \/ ArcStart
    \/ ArcSource
    \/ ArcPath
    \/ ArcFile
    \/ ArcFinish
    \/ ArcAgain

SpecArchive == ArcInit /\ [][ArcNext]_vars

\* C9: the archive resolver applied to the config it rewrote in a successful run
\* (same filesystem, same or fresh ID resolver) succeeds, returns the same
\* ID -> file bindings and rewrites the config to the same structured value.
C9_ResolverIdempotent ==
    (arcRun = 2 /\ arc.pc \in {"done", "failed"}) =>
        /\ arcOut = arcFirst.val.out
        /\ arcConfig = arcFirst.val.config

\* C9 witness: a second run has finished on a config whose first run resolved an
\* ID collision (a suffixed ID) and kept a scanned directory.
C9_Witness ==
    /\ arcRun = 2 /\ arc.pc = "done"
    /\ arcOut.tag = "Ok"
    /\ \E id \in DOMAIN arcOut.val : id = Suffixed("a", 1)
    /\ arcConfig.cfg.paths # None

\* The items of an Option<OneOrMany<T>>.
OptItems(opt) == IF opt = None THEN <<>> ELSE opt.val.items

\* C24: a source that cannot be created is omitted and does not end the
\* resolution: no run fails on a file that exists but cannot be opened, and a
\* finished run has registered no such file.
C24_PerSourceFailureSkipped ==
    /\ arc.pc = "failed" =>
          ~(/\ arcOut.err.kind = "IoError"
            /\ Exists(arcOut.err.path)
            /\ CreateFails(arcOut.err.path))
    /\ arc.pc = "done" =>
          \A id \in DOMAIN arcOut.val : ~CreateFails(arcOut.val[id])

\* A finished run never holds a source that could not be created.
NoBrokenSourceRegistered ==
    arc.pc = "done" => \A id \in DOMAIN arcOut.val : ~CreateFails(arcOut.val[id])

\* the keys under which a map of paths holds the file `can`
KeysFor(results, can) == {k \in DOMAIN results : canonicalize(results[k]) = can}

\* C25: when a run succeeds, two explicit sources entries with different IDs
\* and the same canonical path are both registered and both bound in the
\* rewritten config, each under its own ID when that ID was free.
C25_DuplicateSourcesRegistered ==
    [][(arc.pc = "run" /\ arc'.pc = "done") =>
        \A id1, id2 \in DOMAIN arc.sources :
            LET can == canonicalize(arc.sources[id1].path) IN
            (id1 # id2 /\ canonicalize(arc.sources[id2].path) = can) =>
                /\ Cardinality(KeysFor(arcOut'.val, can)) >= 2
                /\ KeysFor(arcOut'.val, can) \subseteq DOMAIN arcConfig'.cfg.sources.val
                /\ \A id \in {id1, id2} :
                       names[id] = can =>
                           /\ id \in DOMAIN arcOut'.val
                           /\ arcOut'.val[id] = arc.sources[id].path
                           /\ arcConfig'.cfg.sources.val[id] = arc.sources[id]]_vars

\* Two explicit entries for one file whose IDs the resolver gave to that file
\* are both registered, each under its own ID.
DuplicateSourcesUnderFreeIds ==
    [][(arc.pc = "run" /\ arc'.pc = "done") =>
        \A id1, id2 \in DOMAIN arc.sources :
            LET can == canonicalize(arc.sources[id1].path) IN
            (/\ id1 # id2 /\ canonicalize(arc.sources[id2].path) = can
             /\ names[id1] = can /\ names[id2] = can
             /\ can \notin {names[k] : k \in (DOMAIN names) \ {id1, id2}}) =>
                /\ {id1, id2} \subseteq KeysFor(arcOut'.val, can)
                /\ {id1, id2} \subseteq DOMAIN arcConfig'.cfg.sources.val]_vars

\* C29: when the resolution returns an error the caller's config holds its
\* value from before the call, or a complete structured form; it is never
\* left emptied or half filled.
C29_ConfigKeptOnError ==
    [][(arc.pc = "run" /\ arc'.pc = "failed") =>
        LET cfg == TakenConfig(arcConfig') IN
        \/ /\ OptItems(cfg.paths) = arc.paths
           /\ (IF cfg.sources = None THEN EmptyMap ELSE cfg.sources.val) = arc.sources
        \/ /\ arcConfig'.tag = "Config"
           /\ cfg.sources # None
           /\ DOMAIN arc.configs \subseteq DOMAIN cfg.sources.val
           /\ OptItems(cfg.paths) = SelectSeq(arc.paths, is_dir)]_vars

\* C17: an iteration of the sources loop passes only an entry whose path is a
\* regular file; for an entry whose path is a directory or does not exist it
\* fails with InvalidSourceFilePath(id, path), and nothing is returned.  (The
\* only other failure is create_source on a regular file.)
C17_InvalidSourceFilePath ==
    [][(arc.pc = "run" /\ arc.srcLeft # {} /\ arc' # arc) =>
        IF arc'.pc = "run"
        THEN \A id \in arc.srcLeft \ arc'.srcLeft :
                 /\ Exists(arc.sources[id].path)
                 /\ is_file(canonicalize(arc.sources[id].path))
        ELSE /\ arc'.pc = "failed"
             /\ arcOut'.tag = "Err"
             /\ \/ /\ arcOut'.err.kind = "IoError"
                   /\ is_file(arcOut'.err.path)
                \/ /\ arcOut'.err.kind = "InvalidSourceFilePath"
                   /\ arcOut'.err.id \in arc.srcLeft
                   /\ ~is_file(arcOut'.err.path)]_vars

\* An explicit source whose path is a directory does fail with
\* InvalidSourceFilePath.
DirectorySourceRejected ==
    [][(arc.pc = "run" /\ arc.srcLeft # {} /\ arc'.pc = "run") =>
        \A id \in arc.srcLeft \ arc'.srcLeft :
            ~is_dir(arc.sources[id].path)]_vars

\* C18: an iteration of the paths loop fails with InvalidFilePath for an
\* entry that is neither a directory nor a regular file, and for a regular
\* file whose extension is not the expected one; any other entry passes.
C18_InvalidFilePath ==
    [][(/\ arc.pc = "run" /\ arc.srcLeft = {} /\ arc.dirFiles = {}
        /\ arc.pathsLeft # <<>> /\ arc' # arc) =>
        LET path == Head(arc.pathsLeft) IN
        IF \/ ~is_dir(path) /\ ~is_file(path)
           \/ is_file(path) /\ extension(path) # ExpectedExtension
        THEN /\ arc'.pc = "failed"
             /\ arcOut'.tag = "Err"
             /\ arcOut'.err.kind = "InvalidFilePath"
        ELSE arc'.pc = "run"]_vars

\* An entry that is neither a directory nor a regular file does fail with
\* InvalidFilePath.
MissingPathRejected ==
    [][(/\ arc.pc = "run" /\ arc.srcLeft = {} /\ arc.dirFiles = {}
        /\ arc.pathsLeft # <<>> /\ arc' # arc) =>
        LET path == Head(arc.pathsLeft) IN
        (~is_dir(path) /\ ~is_file(path)) =>
            /\ arc'.pc = "failed"
            /\ arcOut' = Err([kind |-> "InvalidFilePath", path |-> path])]_vars

\* C19: the step that ends a successful resolution leaves the config in the
\* structured form: paths are the directories among the input paths, in their
\* order, and sources has the keys of the returned registry, each bound to
\* the path its source was created from.
C19_RewrittenConfig ==
    [][(arc.pc = "run" /\ arc'.pc = "done") =>
        /\ arcOut'.tag = "Ok"
        /\ arcConfig'.tag = "Config"
        /\ OptItems(arcConfig'.cfg.paths) = SelectSeq(arc.paths, is_dir)
        /\ arcConfig'.cfg.sources # None
        /\ DOMAIN arcConfig'.cfg.sources.val = DOMAIN arcOut'.val
        /\ \A id \in DOMAIN arcOut'.val :
               arcConfig'.cfg.sources.val[id].path = arcOut'.val[id]]_vars

\* C19 witness: a finished first run whose input paths held a directory and a
\* file: the directory is the only path kept and both files of the directory
\* are bound in sources.
C19_Witness ==
    /\ arc.pc = "done" /\ arcRun = 1
    /\ arc.warned = {"/e/a.pmtiles"}
    /\ arcConfig.cfg.paths = Some(One("/d"))
    /\ arcOut.tag = "Ok"
    /\ DOMAIN arcOut.val = {"a", "l"}
    /\ DOMAIN arcConfig.cfg.sources.val = {"a", "l"}

\* How many explicit sources name the file with canonical path `can`.
ExplicitFor(sources, can) ==
    Cardinality({id \in DOMAIN sources :
                    Exists(sources[id].path) /\ canonicalize(sources[id].path) = can})

\* How many registered sources were created from the file `can`.
RegisteredFor(results, can) ==
    Cardinality({id \in DOMAIN results : canonicalize(results[id]) = can})

\* C13: in the paths loop a file whose canonical path is in the seen-set is
\* skipped: no ID is resolved and nothing is registered, and it is warned
\* about exactly when it was a direct file entry; a file not yet seen is
\* registered.  So the paths never add a second source for a file.
C13_DuplicateSkipped ==
    /\ [](arc.pc = "run" =>
            \A can \in arc.files :
                RegisteredFor(arc.results, can)
                    <= IF ExplicitFor(arc.sources, can) = 0 THEN 1
                       ELSE ExplicitFor(arc.sources, can))
    /\ [][(/\ arc.pc = "run" /\ arc.srcLeft = {} /\ arc.dirFiles # {}
           /\ arc'.pc = "run" /\ arc'.dirFiles # arc.dirFiles) =>
            LET path == CHOOSE f \in arc.dirFiles : f \notin arc'.dirFiles
                can  == canonicalize(path)
            IN  IF can \in arc.files
                THEN /\ names' = names
                     /\ arc'.results = arc.results
                     /\ arc'.configs = arc.configs
                     /\ arc'.warned = IF arc.isDir THEN arc.warned
                                      ELSE arc.warned \cup {can}
                ELSE /\ RegisteredFor(arc'.results, can) = 1
                     /\ arc'.warned = arc.warned]_vars

\* C13 witness: a run that registered /e/a.pmtiles once although the config
\* named it three times, and warned about the direct file entry.
C13_Witness ==
    /\ arc.pc = "done"
    /\ arcRun = 1
    /\ arc.warned = {"/e/a.pmtiles"}
    /\ arcOut.tag = "Ok"
    /\ Cardinality(DOMAIN arcOut.val) = 1
    /\ arcConfig.cfg.paths # None

\* ---------------------------------------------------------------------------
\* DB group: pg::configurator::resolve_pg_data.  PgBuilder::new opens the pool,
\* then instantiate_tables and instantiate_functions run under one try_join:
\* each awaits its introspection query and then makes all its resolve_id calls
\* without suspending, so the two blocks of calls run in the order in which
\* the database answers the two queries.
\* ---------------------------------------------------------------------------

PgPoolId == "db1"

PgNotRun == [tag |-> "NotRun"]
PgQuery  == [tag |-> "query"]

\* TableInfo and FunctionInfo, with the fields the resolver reads
TableInfo(schema, table, geom, srid, extent) ==
    [schema |-> schema, table |-> table, geometry_column |-> geom,
     srid |-> srid, extent |-> extent]

FunctionInfo(schema, function) == [schema |-> schema, function |-> function]

func_format_id(inf) == inf.schema \o "." \o inf.function

\* String::cmp on the names of the model, which by_key compares
NameOrder == <<"a", "f", "g1", "g2", "other", "public", "t", "u">>

NameRank(n) == CHOOSE i \in 1..Len(NameOrder) : NameOrder[i] = n

by_key(a, b) == NameRank(a) < NameRank(b)

\* the nested sorted_by(by_key) loops visit the columns in this order
ColumnBefore(a, b) ==
    \/ by_key(a.schema, b.schema)
    \/ a.schema = b.schema /\ by_key(a.table, b.table)
    \/ a.schema = b.schema /\ a.table = b.table
         /\ by_key(a.geometry_column, b.geometry_column)

RECURSIVE SortedColumns(_)
SortedColumns(S) ==
    IF S = {} THEN <<>>
    ELSE LET first == CHOOSE a \in S : \A b \in S \ {a} : ColumnBefore(a, b)
         IN  <<first>> \o SortedColumns(S \ {first})

FunctionBefore(a, b) ==
    \/ by_key(a.schema, b.schema)
    \/ a.schema = b.schema /\ by_key(a.function, b.function)

RECURSIVE SortedFunctions(_)
SortedFunctions(S) ==
    IF S = {} THEN <<>>
    ELSE LET first == CHOOSE a \in S : \A b \in S \ {a} : FunctionBefore(a, b)
         IN  <<first>> \o SortedFunctions(S \ {first})

\* the orders in which a HashMap may hand out its keys
Orders(S) ==
    {o \in [1..Cardinality(S) -> S] : \A i, j \in DOMAIN o : o[i] = o[j] => i = j}

\* find_info, three levels deep: the discovered column a declared source names
find_info(all_tables, cfg_inf) ==
    LET hit == {c \in all_tables : /\ c.schema = cfg_inf.schema
                                   /\ c.table = cfg_inf.table
                                   /\ c.geometry_column = cfg_inf.geometry_column}
    IN  IF hit = {} THEN None ELSE Some(CHOOSE c \in hit : TRUE)

\* The rule without the default: the column keeps the SRID it reports.
calc_srid_as_reported(sql_srid, cfg_srid, default_srid) == Some(sql_srid)

\* calc_srid for a column no declared SRID overrides (cfg_srid = 0): a column
\* of SRID 0 takes the default SRID or is skipped, any other keeps its own
calc_srid(sql_srid, cfg_srid, default_srid) ==
    IF sql_srid = 0 THEN default_srid ELSE Some(sql_srid)

\* merge_table_info: the declared fields win over the discovered ones
merge_table_info(default_srid, cfg_inf, src_inf) ==
    IF cfg_inf.srid # 0 THEN Some(cfg_inf)
    ELSE LET srid == calc_srid(src_inf.srid, cfg_inf.srid, default_srid)
         IN  IF srid = None THEN None ELSE Some([cfg_inf EXCEPT !.srid = srid.val])

PgResolve(nm, id, fid) == ResolveOut(nm, id, pg_signature(PgPoolId, fid))

PgBind(nm, id, fid) ==
    Bind(nm, PgResolve(nm, id, fid), pg_signature(PgPoolId, fid))

\* the HashMap built from a list of (id, value) insertions
RECURSIVE Collect(_)
Collect(pending) ==
    IF pending = <<>> THEN EmptyMap
    ELSE LET last == pending[Len(pending)]
         IN  MapPut(Collect(SubSeq(pending, 1, Len(pending) - 1)), last.id, last.inf)

\* The validation of extent left out.
extent_unchecked(cfg_inf) == FALSE

\* if let Some(extent) = cfg_inf.extent { if extent == 0 { return Err(..) } }
extent_is_zero(cfg_inf) == cfg_inf.extent = Some(0)

\* A used-set that is never consulted.
used_contains_never(used, key) == FALSE

\* used.contains(&(schema, table, geom))
used_contains(used, key) == key \in used

\* instantiate_tables, the loop over the declared tables, visited in `order`
RECURSIVE TablesDeclared(_, _, _, _)
TablesDeclared(pg, all_tables, order, st) ==
    IF order = <<>> \/ st.err THEN st
    ELSE
      LET id      == Head(order)
          cfg_inf == pg.tables[id]
          found   == find_info(all_tables, cfg_inf)
          key     == <<cfg_inf.schema, cfg_inf.table, cfg_inf.geometry_column>>
          id2     == PgResolve(st.names, id, format_id(cfg_inf))
          merged  == merge_table_info(pg.default_srid, cfg_inf, found.val)
          bound   == [st EXCEPT !.names = PgBind(st.names, id, format_id(cfg_inf)),
                                !.used = @ \cup {key}]
          next    ==
            IF extent_is_zero(cfg_inf) THEN [st EXCEPT !.err = TRUE]
            ELSE IF found = None THEN st
            ELSE IF merged = None THEN bound
            ELSE [bound EXCEPT !.pending =
                      Append(@, [id |-> id2, inf |-> merged.val])]
      IN  TablesDeclared(pg, all_tables, Tail(order), next)

\* instantiate_tables, the loop over the discovered columns in sorted order
RECURSIVE TablesDiscovered(_, _, _)
TablesDiscovered(pg, columns, st) ==
    IF columns = <<>> THEN st
    ELSE
      LET src_inf == Head(columns)
          key     == <<src_inf.schema, src_inf.table, src_inf.geometry_column>>
          id2     == PgResolve(st.names, src_inf.table, format_id(src_inf))
          srid    == calc_srid(src_inf.srid, 0, pg.default_srid)
          bound   == [st EXCEPT !.names =
                          PgBind(st.names, src_inf.table, format_id(src_inf))]
          next    ==
            IF used_contains(st.used, key) THEN st
            ELSE IF srid = None THEN bound
            ELSE [bound EXCEPT !.pending =
                      Append(@, [id |-> id2,
                                 inf |-> [src_inf EXCEPT !.srid = srid.val]])]
      IN  TablesDiscovered(pg, Tail(columns), next)

\* instantiate_functions, the loop over the declared functions
RECURSIVE FunctionsDeclared(_, _, _)
FunctionsDeclared(pg, order, st) ==
    IF order = <<>> THEN st
    ELSE
      LET id      == Head(order)
          cfg_inf == pg.functions[id]
          id2     == PgResolve(st.names, id, func_format_id(cfg_inf))
          bound   == [st EXCEPT
                        !.names = PgBind(st.names, id, func_format_id(cfg_inf)),
                        !.pending = Append(@, [id |-> id2, inf |-> cfg_inf])]
          next    ==
            IF cfg_inf \in st.discovered
              THEN [bound EXCEPT !.discovered = @ \ {cfg_inf},
                                 !.used = @ \cup {cfg_inf}]
            ELSE IF cfg_inf \in st.used THEN bound
            ELSE st
      IN  FunctionsDeclared(pg, Tail(order), next)

\* instantiate_functions, the loop over what is left of the discovered ones
RECURSIVE FunctionsDiscovered(_, _)
FunctionsDiscovered(functions, st) ==
    IF functions = <<>> THEN st
    ELSE
      LET src_inf == Head(functions)
          id2     == PgResolve(st.names, src_inf.function, func_format_id(src_inf))
          next    == [st EXCEPT
                        !.names = PgBind(st.names, src_inf.function,
                                         func_format_id(src_inf)),
                        !.pending = Append(@, [id |-> id2, inf |-> src_inf])]
      IN  FunctionsDiscovered(Tail(functions), next)

instantiate_tables(pg, all_tables, order, nm) ==
    LET st0 == [names |-> nm, used |-> {}, pending |-> <<>>, err |-> FALSE]
        st1 == TablesDeclared(pg, all_tables, order, st0)
    IN  IF st1.err \/ ~pg.discover_tables THEN st1
        ELSE TablesDiscovered(pg, SortedColumns(all_tables), st1)

instantiate_functions(pg, discovered_sources, order, nm) ==
    LET st0 == [names |-> nm, used |-> {}, pending |-> <<>>,
                discovered |-> discovered_sources]
        st1 == FunctionsDeclared(pg, order, st0)
    IN  IF ~pg.discover_functions THEN st1
        ELSE FunctionsDiscovered(SortedFunctions(st1.discovered), st1)

\* The tables future is resumed with the introspection result.
PgTables ==
    /\ pgRun \in {1, 2}
    /\ pgOut = PgNotRun
    /\ pgTask.tables = PgQuery
    /\ \E order \in Orders(DOMAIN pgConfig.tables) :
         LET st == instantiate_tables(pgConfig, pgDb.tables, order, names)
         IN  /\ names' = st.names
             /\ pgTask' = [pgTask EXCEPT !.tables =
                             IF st.err THEN Err("extent=0")
                             ELSE Ok(Collect(st.pending))]
    /\ UNCHANGED <<pgConfig, pgDb, pgOut, pgRun, pgFirst, nonPgVars>>

\* The functions future is resumed with the introspection result.
PgFunctions ==
    /\ pgRun \in {1, 2}
    /\ pgOut = PgNotRun
    /\ pgTask.functions = PgQuery
    /\ \E order \in Orders(DOMAIN pgConfig.functions) :
         LET st == instantiate_functions(pgConfig, pgDb.functions, order, names)
         IN  /\ names' = st.names
             /\ pgTask' = [pgTask EXCEPT !.functions = Ok(Collect(st.pending))]
    /\ UNCHANGED <<pgConfig, pgDb, pgOut, pgRun, pgFirst, nonPgVars>>

\* try_join completes: with the first error, or with both results, and
\* resolve_pg_data extends the table sources with the function sources.
PgJoin ==
    /\ pgRun \in {1, 2}
    /\ pgOut = PgNotRun
    /\ \/ /\ pgTask.tables.tag = "Err"
          /\ pgOut' = pgTask.tables
       \/ /\ pgTask.tables.tag = "Ok" /\ pgTask.functions.tag = "Ok"
          /\ pgOut' = Ok([tables    |-> pgTask.tables.val,
                          functions |-> pgTask.functions.val])
    /\ UNCHANGED <<names, pgConfig, pgDb, pgTask, pgRun, pgFirst, nonPgVars>>

\* The same configuration is resolved once more against the same database,
\* with a fresh ID resolver.
PgAgain ==
    /\ pgRun = 1
    /\ pgOut # PgNotRun
    /\ pgFirst' = Some(pgOut)
    /\ pgOut' = PgNotRun
    /\ pgTask' = [tables |-> PgQuery, functions |-> PgQuery]
    /\ pgRun' = 2
    /\ names' = EmptyNames
    /\ UNCHANGED <<pgConfig, pgDb, nonPgVars>>

Wgs84 == 4326
DefaultSrid == 900913

DbColumns ==
    {TableInfo("public", "t", "g1", Wgs84, None),
     TableInfo("public", "t", "g2", Wgs84, None),
     TableInfo("other", "t", "g1", Wgs84, None),
     TableInfo("public", "u", "g1", 0, None)}

DbFunctions == {FunctionInfo("public", "t"), FunctionInfo("public", "f")}

CfgTables ==
    {TableInfo("public", "t", "g2", Wgs84, None),
     TableInfo("public", "missing", "g1", Wgs84, None),
     TableInfo("public", "t", "g1", Wgs84, Some(0))}

CfgFunctions == {FunctionInfo("public", "t"), FunctionInfo("public", "missing")}

CfgTableIds == {"t", "x"}

CfgFunctionIds == {"t", "y"}

Maps(ids, values) == UNION {[d -> values] : d \in SUBSET ids}

\* at most MaxDeclared declared sources, tables and functions together
PgConfigs ==
    {c \in [tables             : Maps(CfgTableIds, CfgTables),
            functions          : Maps(CfgFunctionIds, CfgFunctions),
            default_srid       : {None, Some(DefaultSrid)},
            discover_tables    : BOOLEAN,
            discover_functions : BOOLEAN] :
        Cardinality(DOMAIN c.tables) + Cardinality(DOMAIN c.functions) <= MaxDeclared}

PgInit ==
    /\ pgConfig \in PgConfigs
    /\ pgDb \in [tables : SUBSET DbColumns, functions : SUBSET DbFunctions]
    /\ pgTask = [tables |-> PgQuery, functions |-> PgQuery]
    /\ pgOut = PgNotRun
    /\ pgRun = 1
    /\ pgFirst = None
    /\ names = EmptyNames
    /\ lock = NoOne
    /\ pc = [c \in Callers |-> "idle"]
    /\ req = [c \in Callers |-> NoReq]
    /\ ret = [c \in Callers |-> ""]
    /\ pool = [c \in PgCallers |-> "db1"]
    /\ history = {}
    /\ calls = 0
    /\ DetIdle /\ FinIdle /\ ArcIdle /\ FlagIdle /\ ResIdle /\ TileIdle /\ ConnIdle

PgNext ==
    \/ PgTables
    \/ PgFunctions
    \/ PgJoin
    \/ PgAgain

SpecPg == PgInit /\ [][PgNext]_vars

\* C10: with the same introspection result and configuration and a fresh ID
\* resolver, a second run of the DB group assigns every table column and every
\* function the ID the first run assigned.
C10_DiscoveryDeterministic ==
    (pgRun = 2 /\ pgOut # PgNotRun) => pgOut = pgFirst.val

\* The tables future alone is deterministic: when the database has no function
\* and none is declared, both runs assign the same IDs.
TablesAloneDeterministic ==
    (pgRun = 2 /\ pgOut # PgNotRun
       /\ pgDb.functions = {} /\ DOMAIN pgConfig.functions = {}) =>
        pgOut = pgFirst.val

\* Columns g1 and g2 of one discovered table get <table> and <table>.1 when
\* nothing else claims the table's name.
TwoGeometryColumns ==
    (/\ pgOut.tag = "Ok"
     /\ pgConfig.discover_tables
     /\ DOMAIN pgConfig.tables = {}
     /\ pgDb.functions = {} /\ DOMAIN pgConfig.functions = {}
     /\ pgDb.tables = {TableInfo("public", "t", "g1", Wgs84, None),
                       TableInfo("public", "t", "g2", Wgs84, None)}) =>
        /\ DOMAIN pgOut.val.tables = {"t", Suffixed("t", 1)}
        /\ pgOut.val.tables["t"].geometry_column = "g1"
        /\ pgOut.val.tables[Suffixed("t", 1)].geometry_column = "g2"

\* The discovered columns no declared table source names.
Undeclared(cfg, all_tables) ==
    {c \in all_tables :
        \A id \in DOMAIN cfg.tables : format_id(cfg.tables[id]) # format_id(c)}

\* The IDs under which a column is registered.
IdsOf(tables, c) == {id \in DOMAIN tables : format_id(tables[id]) = format_id(c)}

SridZeroSkipped ==
    /\ pgOut.tag = "Ok" /\ pgConfig.discover_tables
    /\ pgConfig.default_srid = None
    /\ \E c \in Undeclared(pgConfig, pgDb.tables) :
           c.srid = 0 /\ IdsOf(pgOut.val.tables, c) = {}

\* ---------------------------------------------------------------------------
\* Config::resolve: one future per postgres entry, then one for pmtiles, each
\* with a clone of the ID resolver, joined by try_join_all.  The futures are
\* polled in that order; a DB future first suspends in Pool::new, so the
\* archive future makes its calls up to its first create_source(..).await
\* before any DB future is resumed.  After that, who runs next is decided by
\* which I/O completes first.
\* ---------------------------------------------------------------------------

ResNotRun == [tag |-> "NotRun"]

PgPresent  == resConfig.postgres # None
ArcPresent == resConfig.pmtiles # None

ResRunning == resRun \in {1, 2} /\ resOut = ResNotRun

\* try_join_all returns in the poll in which a future fails: no other future
\* is resumed after that
NoneFailed ==
    /\ ArcPresent => arc.pc # "failed"
    /\ PgPresent => pgOut.tag # "Err"

\* the archive future has been polled up to its first suspension or its end
ArcPolled ==
    \/ ~ArcPresent
    \/ arc.pc \in {"done", "failed"}
    \/ arc.pc = "run" /\ DOMAIN arc.results # {}

\* the Sources of the DB group: tables.extend(funcs)
PgSources(out) ==
    [id \in (DOMAIN out.tables) \cup (DOMAIN out.functions) |->
        IF id \in DOMAIN out.functions
        THEN [group |-> "postgres", source |-> func_format_id(out.functions[id])]
        ELSE [group |-> "postgres", source |-> format_id(out.tables[id])]]

ArcSources(out) == [id \in DOMAIN out |-> [group |-> "pmtiles", source |-> out[id]]]

\* fold(HashMap::new(), |acc, hashmap| acc.extend(hashmap)) of both groups
Registry(pgSources, arcSources) ==
    [id \in (DOMAIN pgSources) \cup (DOMAIN arcSources) |->
        IF id \in DOMAIN arcSources THEN arcSources[id] ELSE pgSources[id]]

\* the archive future is resumed
ResArchive ==
    /\ ResRunning /\ NoneFailed
    /\ ArcPresent
    /\ ArcStart \/ ArcSource \/ ArcPath \/ ArcFile \/ ArcFinish

\* the DB future is resumed
ResPg ==
    /\ ResRunning /\ NoneFailed
    /\ PgPresent
    /\ ArcPolled
    /\ PgTables \/ PgFunctions \/ PgJoin

\* try_join_all(sources).await?: the first error of any group, or every
\* group's sources folded into one map
ResJoin ==
    /\ ResRunning
    /\ \/ /\ PgPresent /\ pgOut.tag = "Err"
          /\ resOut' = Err(pgOut.err)
       \/ /\ ArcPresent /\ arc.pc = "failed"
          /\ resOut' = Err(arcOut.err)
       \/ /\ PgPresent => pgOut.tag = "Ok"
          /\ ArcPresent => arc.pc = "done"
          /\ resOut' = Ok(Registry(
                 IF PgPresent THEN PgSources(pgOut.val) ELSE EmptyMap,
                 IF ArcPresent THEN ArcSources(arcOut.val) ELSE EmptyMap))
    /\ UNCHANGED <<names, arcVars, pgVars, resConfig, resRun, resFirst, nonResVars>>

\* The same Config is resolved once more, on the same database and
\* filesystem, with a fresh ID resolver.
ResAgain ==
    /\ resRun = 1
    /\ resOut # ResNotRun
    /\ resFirst' = Some(resOut)
    /\ resOut' = ResNotRun
    /\ resRun' = 2
    /\ names' = EmptyNames
    /\ IF PgPresent
       THEN pgTask' = [tables |-> PgQuery, functions |-> PgQuery] /\ pgOut' = PgNotRun
       ELSE UNCHANGED <<pgTask, pgOut>>
    /\ IF ArcPresent
       THEN arcConfig' = resConfig.pmtiles.val /\ arc' = ArcFresh /\ arcOut' = NotRun
       ELSE UNCHANGED <<arcConfig, arc, arcOut>>
    /\ UNCHANGED <<arcRun, arcFirst, broken, pgConfig, pgDb, pgRun, pgFirst,
                   resConfig, nonResVars>>

\* The configs and databases Config::resolve is run on.  No function is
\* declared or discovered, so that the DB group on its own is deterministic.
ResDbColumns ==
    {TableInfo("public", "a", "g1", Wgs84, None),
     TableInfo("public", "t", "g1", Wgs84, None)}

ResCfgTables ==
    {TableInfo("public", "t", "g1", Wgs84, None),
     TableInfo("public", "t", "g1", Wgs84, Some(0))}

ResPgConfigs ==
    [tables             : Maps({"a"}, ResCfgTables),
     functions          : {EmptyMap},
     default_srid       : {None},
     discover_tables    : BOOLEAN,
     discover_functions : {TRUE}]

ResPathSeqs == UNION {[1..k -> {"/d", "/e", "/nope"}] : k \in 0..MaxPaths}

ResArcConfigs ==
    {FcePaths(ps) : ps \in ResPathSeqs}
        \cup {FceConfig([paths |-> ps, unrecognized |-> {},
                         sources |-> Some([k \in {"a"} |-> SrcPath("/e/a.pmtiles")])]) :
                 ps \in {None, Some(One("/d"))}}

ResInit ==
    /\ resConfig \in [postgres : {None} \cup {Some(c) : c \in ResPgConfigs},
                      pmtiles  : {None} \cup {Some(c) : c \in ResArcConfigs}]
    /\ resOut = ResNotRun
    /\ resRun = 1
    /\ resFirst = None
    /\ names = EmptyNames
    /\ IF PgPresent
       THEN /\ pgConfig = resConfig.postgres.val
            /\ pgDb \in [tables : SUBSET ResDbColumns, functions : {{}}]
            /\ pgTask = [tables |-> PgQuery, functions |-> PgQuery]
            /\ pgOut = PgNotRun
            /\ pgRun = 1
            /\ pgFirst = None
       ELSE PgIdle
    /\ IF ArcPresent
       THEN /\ arcConfig = resConfig.pmtiles.val
            /\ arc = ArcFresh
            /\ arcOut = NotRun
            /\ arcRun = 1
            /\ arcFirst = None
            /\ broken \in SUBSET {"/e/a.pmtiles"}
       ELSE ArcIdle
    /\ lock = NoOne
    /\ pc = [c \in Callers |-> "idle"]
    /\ req = [c \in Callers |-> NoReq]
    /\ ret = [c \in Callers |-> ""]
    /\ pool = [c \in PgCallers |-> "db1"]
    /\ history = {}
    /\ calls = 0
    /\ DetIdle /\ FinIdle /\ FlagIdle /\ TileIdle /\ ConnIdle

ResNext ==
    \/ ResArchive
    \/ ResPg
    \/ ResJoin
    \/ ResAgain

SpecResolve == ResInit /\ [][ResNext]_vars

\* C11: whatever the order in which the group resolvers run and finish, two
\* successful runs of Config::resolve on the same input give every source the
\* same ID.
C11_SameAssignment ==
    (resRun = 2 /\ resOut.tag = "Ok" /\ resFirst.val.tag = "Ok") =>
        resOut = resFirst.val

\* Every run on the same input fails or succeeds alike.
ResSameSuccess ==
    (resRun = 2 /\ resOut # ResNotRun) => resOut.tag = resFirst.val.tag

\* Each group on its own gets the same IDs in every run.
OneGroupSameAssignment ==
    (resRun = 2 /\ resOut # ResNotRun /\ ~(PgPresent /\ ArcPresent)) =>
        resOut = resFirst.val

\* C12: when Config::resolve has returned, the sources of every group that
\* resolved successfully (and has sources) are in the registry it returned.
C12_FailureIsolation ==
    resOut # ResNotRun =>
        /\ (ArcPresent /\ arc.pc = "done" /\ DOMAIN arcOut.val # {}) =>
               /\ resOut.tag = "Ok"
               /\ \A id \in DOMAIN arcOut.val :
                      id \in DOMAIN resOut.val /\ resOut.val[id].group = "pmtiles"
        /\ (PgPresent /\ pgOut.tag = "Ok" /\ DOMAIN PgSources(pgOut.val) # {}) =>
               /\ resOut.tag = "Ok"
               /\ \A id \in DOMAIN PgSources(pgOut.val) :
                      id \in DOMAIN resOut.val /\ resOut.val[id].group = "postgres"

\* ---------------------------------------------------------------------------
\* Source::get_tile of an archive source (PmtSource) and of a table source
\* (TableSource).  Xyz carries signed 32-bit z, x and y.
\* ---------------------------------------------------------------------------

TileNotRun == [tag |-> "NotRun"]

\* `v as u8` of an i32
AsU8(v) == v % 256

\* `v as u64` of an i32 that is not negative
AsU64(v) == v

Xyz(z, x, y) == [z |-> z, x |-> x, y |-> y]

\* AsyncPmTilesReader::get_tile(z: u8, x: u64, y: u64): the entry of the
\* archive's directory, if there is one
reader_get_tile(archive, z, x, y) ==
    IF <<z, x, y>> \in DOMAIN archive THEN Some(archive[<<z, x, y>>]) ELSE None

\* PmtSource::get_tile
pmt_get_tile(id, archive, xyz) ==
    LET found == reader_get_tile(archive, AsU8(xyz.z), AsU64(xyz.x), AsU64(xyz.y))
    IN  IF found = None
        THEN Err([kind |-> "GetTileError", xyz |-> xyz, id |-> id])
        ELSE Ok(found.val)

\* Connection::query_one: the row of a reply of exactly one row
query_one(reply) ==
    IF reply.tag = "DbError" THEN Err("db")
    ELSE IF Len(reply.rows) # 1 THEN Err("row count")
    ELSE Ok(reply.rows[1])

\* TableSource::get_tile
table_get_tile(id, reply, xyz) ==
    LET row == query_one(reply)
    IN  IF row.tag = "Err"
        THEN Err([kind |-> "DbError", cause |-> row.err, id |-> id,
                  at |-> <<xyz.z, xyz.x, xyz.z>>])
        ELSE Ok(row.val)

\* utils::is_valid_zoom(zoom: i32, minzoom: Option<u8>, maxzoom: Option<u8>)
is_valid_zoom(zoom, minzoom, maxzoom) ==
    /\ IF minzoom = None THEN TRUE ELSE zoom >= minzoom.val
    /\ IF maxzoom = None THEN TRUE ELSE zoom <= maxzoom.val

\* PmtSource::is_valid_zoom with the two bounds exchanged
PmtSource_is_valid_zoom_swapped(self, zoom) ==
    is_valid_zoom(zoom, self.tilejson.maxzoom, self.tilejson.minzoom)

\* PmtSource::is_valid_zoom
PmtSource_is_valid_zoom(self, zoom) ==
    is_valid_zoom(zoom, self.tilejson.minzoom, self.tilejson.maxzoom)

PmtIsValidZoom ==
    /\ tileOut = TileNotRun
    /\ tileReq.kind = "valid_zoom"
    /\ tileOut' = [tag |-> "Bool",
                   val |-> PmtSource_is_valid_zoom(tileReq.source, tileReq.zoom)]
    /\ UNCHANGED <<tileReq, nonTileVars>>

PmtGetTile ==
    /\ tileOut = TileNotRun
    /\ tileReq.kind = "pmtiles"
    /\ tileOut' = pmt_get_tile(tileReq.id, tileReq.archive, tileReq.xyz)
    /\ UNCHANGED <<tileReq, nonTileVars>>

TableGetTile ==
    /\ tileOut = TileNotRun
    /\ tileReq.kind = "table"
    /\ tileOut' = table_get_tile(tileReq.id, tileReq.reply, tileReq.xyz)
    /\ UNCHANGED <<tileReq, nonTileVars>>

\* The tiles an archive may hold (its zoom is a u8), and their bytes.
ArchiveCoords == {<<0, 0, 0>>, <<1, 0, 0>>, <<1, 1, 0>>}
TileBytes == {<<>>, <<26>>, <<31, 139>>}
Archives == UNION {[d -> TileBytes \ {<<>>}] : d \in SUBSET ArchiveCoords}

TileRequests == {Xyz(z, x, y) : z \in {0, 1, 2, 256, 257}, x \in {0, 1}, y \in {0, 1}}

\* What the database answers to the tile query.
DbReplies ==
    {[tag |-> "DbError"]}
        \cup {[tag |-> "Rows", rows |-> <<>>]}
        \cup {[tag |-> "Rows", rows |-> <<b>>] : b \in TileBytes}
        \cup {[tag |-> "Rows", rows |-> <<b, b>>] : b \in TileBytes}

\* The zoom bounds a TileJSON may carry (u8), and the zooms asked (i32).
MaxZoom == 3
ZoomBounds == {None} \cup {Some(z) : z \in 0..MaxZoom}
Zooms == (0 - 1)..(MaxZoom + 1)

TileInit ==
    /\ tileReq \in
         {[kind |-> "pmtiles", id |-> "a", archive |-> a, xyz |-> r] :
              a \in Archives, r \in TileRequests}
           \cup {[kind |-> "valid_zoom", id |-> "a", zoom |-> z,
                  source |-> [tilejson |-> [minzoom |-> lo, maxzoom |-> hi]]] :
                    z \in Zooms, lo \in ZoomBounds, hi \in ZoomBounds}
           \cup {[kind |-> "table", id |-> "t", reply |-> d, xyz |-> r] :
                    d \in DbReplies, r \in TileRequests}
    /\ tileOut = TileNotRun
    /\ IdrIdle /\ DetIdle /\ FinIdle /\ ArcIdle /\ PgIdle /\ FlagIdle /\ ResIdle
    /\ ConnIdle

TileNext ==
    \/ PmtIsValidZoom
    \/ PmtGetTile
    \/ TableGetTile

SpecTile == TileInit /\ [][TileNext]_vars

\* C21: for every zoom and every combination of present or missing minzoom and
\* maxzoom, is_valid_zoom answers true exactly when the zoom is not below a
\* present minzoom and not above a present maxzoom.
C21_ZoomValidity ==
    (tileOut # TileNotRun /\ tileReq.kind = "valid_zoom") =>
        LET tj == tileReq.source.tilejson IN
        tileOut.val <=>
            /\ (tj.minzoom = None \/ tj.minzoom.val <= tileReq.zoom)
            /\ (tj.maxzoom = None \/ tileReq.zoom <= tj.maxzoom.val)

\* C21 witness: a source with only a maxzoom was asked about a zoom above it
\* and answered false.
C21_Witness ==
    /\ tileOut # TileNotRun /\ tileReq.kind = "valid_zoom"
    /\ tileReq.source.tilejson.minzoom = None
    /\ tileReq.source.tilejson.maxzoom = Some(1)
    /\ tileReq.zoom = 2
    /\ tileOut.val = FALSE

\* C23: the archive source never looks up a zoom other than the requested
\* one: a request with z above 255 is rejected with BadRequest.
C23_NoWrappedLookup ==
    (tileOut # TileNotRun /\ tileReq.kind = "pmtiles" /\ tileReq.xyz.z > 255) =>
        /\ tileOut.tag = "Err"
        /\ tileOut.err.kind = "BadRequest"

\* C15: the archive source returns the bytes stored at the requested (z, x, y)
\* when the archive has that tile, and otherwise the tile-not-found error with
\* the requested xyz and the source's id.
C15_ArchiveGetTile ==
    (tileOut # TileNotRun /\ tileReq.kind = "pmtiles") =>
        LET at == <<tileReq.xyz.z, tileReq.xyz.x, tileReq.xyz.y>> IN
        IF at \in DOMAIN tileReq.archive
        THEN tileOut = Ok(tileReq.archive[at])
        ELSE tileOut = Err([kind |-> "GetTileError", xyz |-> tileReq.xyz,
                            id |-> tileReq.id])

\* For a zoom that fits a u8 the archive source does answer as C15 says.
ArchiveGetTileUpTo255 ==
    (tileOut # TileNotRun /\ tileReq.kind = "pmtiles" /\ tileReq.xyz.z \in 0..255) =>
        LET at == <<tileReq.xyz.z, tileReq.xyz.x, tileReq.xyz.y>> IN
        IF at \in DOMAIN tileReq.archive
        THEN tileOut = Ok(tileReq.archive[at])
        ELSE tileOut = Err([kind |-> "GetTileError", xyz |-> tileReq.xyz,
                            id |-> tileReq.id])

\* C16: the table source answers a reply without a row with an empty tile; it
\* fails exactly when the database fails.
C16_NoRowIsEmptyTile ==
    (tileOut # TileNotRun /\ tileReq.kind = "table") =>
        /\ (tileReq.reply.tag = "Rows" /\ tileReq.reply.rows = <<>>) => tileOut = Ok(<<>>)
        /\ tileReq.reply.tag = "DbError" <=> tileOut.tag = "Err"

\* ---------------------------------------------------------------------------
\* PgConfigBuilder::finalize and the persisted configuration
\* ---------------------------------------------------------------------------

ConnectionNotSet == "Database connection string is not set"

\* Option::unwrap_or_default on a HashMap
unwrap_or_default(opt) == IF opt = None THEN EmptyMap ELSE opt.val

\* PgConfigBuilder::finalize: both discovery flags are set to "neither
\* table_sources nor function_sources was given".
PgConfigBuilder_finalize(self) ==
    IF self.connection_string = None THEN Err(ConnectionNotSet)
    ELSE Ok([connection_string  |-> self.connection_string.val,
             default_srid       |-> self.default_srid,
             discover_functions |-> self.table_sources = None /\ self.function_sources = None,
             discover_tables    |-> self.table_sources = None /\ self.function_sources = None,
             tables             |-> unwrap_or_default(self.table_sources),
             functions          |-> unwrap_or_default(self.function_sources)])

\* #[derive(Serialize)] on PgConfig: the keys of the written document.
\* default_srid is skipped when None, the two discovery flags are always
\* skipped, the two maps are always written.
PgConfig_serialize(c) ==
    LET doc == [connection_string |-> c.connection_string,
                table_sources     |-> c.tables,
                function_sources  |-> c.functions]
    IN  IF c.default_srid = None THEN doc
        ELSE [connection_string |-> c.connection_string,
              default_srid      |-> c.default_srid.val,
              table_sources     |-> c.tables,
              function_sources  |-> c.functions]

\* #[derive(Deserialize)] on PgConfigBuilder: a key that is present gives
\* Some, a key that is absent gives None.
PgConfigBuilder_deserialize(doc) ==
    LET opt(key) == IF key \in DOMAIN doc THEN Some(doc[key]) ELSE None
    IN  [connection_string |-> opt("connection_string"),
         default_srid      |-> opt("default_srid"),
         table_sources     |-> opt("table_sources"),
         function_sources  |-> opt("function_sources")]

\* resolve_pg_data's returned config: the resolved maps, the rest of `config`.
ResolvedPgConfig(c, out) ==
    [c EXCEPT !.tables = out.tables, !.functions = out.functions]

\* The parsed builder is finalized into the PgConfig that is then resolved.
FlagFinalize ==
    /\ pgRun = 0
    /\ LET r == PgConfigBuilder_finalize(pgBuilder)
       IN  IF r.tag = "Ok"
           THEN pgConfig' = r.val /\ pgOut' = pgOut
           ELSE pgConfig' = pgConfig /\ pgOut' = r
    /\ pgRun' = 1
    /\ UNCHANGED <<names, pgDb, pgTask, pgFirst, nonPgVars>>

\* The resolved config is written out, read back and finalized.
FlagRoundTrip ==
    /\ pgRun = 1
    /\ pgOut # PgNotRun /\ pgOut.tag = "Ok"
    /\ pgReparsed = None
    /\ LET resolved == ResolvedPgConfig(pgConfig, pgOut.val)
       IN  /\ pgConfig' = resolved
           /\ pgReparsed' = Some(PgConfigBuilder_finalize(
                                   PgConfigBuilder_deserialize(
                                     PgConfig_serialize(resolved))))
    /\ UNCHANGED <<names, pgDb, pgTask, pgOut, pgRun, pgFirst, pgBuilder,
                   idrRest, detVars, finVars, arcVars, resVars, tileVars,
                   connVars>>

FlagDbColumns ==
    {TableInfo("public", "t", "g1", Wgs84, None),
     TableInfo("public", "t", "g2", Wgs84, None)}

FlagDbFunctions == {FunctionInfo("public", "f")}

FlagTableSources ==
    Maps({"t"}, {TableInfo("public", "t", "g2", Wgs84, None),
                 TableInfo("public", "t", "g1", Wgs84, Some(0))})

FlagFunctionSources == Maps({"f"}, {FunctionInfo("public", "f")})

PgConfigBuilders ==
    [connection_string : {None, Some("postgres://db1")},
     default_srid      : {None, Some(DefaultSrid)},
     table_sources     : {None} \cup {Some(m) : m \in FlagTableSources},
     function_sources  : {None} \cup {Some(m) : m \in FlagFunctionSources}]

FlagInit ==
    /\ pgBuilder \in PgConfigBuilders
    /\ pgReparsed = None
    /\ pgConfig = None
    /\ pgDb \in [tables : SUBSET FlagDbColumns, functions : SUBSET FlagDbFunctions]
    /\ pgTask = [tables |-> PgQuery, functions |-> PgQuery]
    /\ pgOut = PgNotRun
    /\ pgRun = 0
    /\ pgFirst = None
    /\ names = EmptyNames
    /\ lock = NoOne
    /\ pc = [c \in Callers |-> "idle"]
    /\ req = [c \in Callers |-> NoReq]
    /\ ret = [c \in Callers |-> ""]
    /\ pool = [c \in PgCallers |-> "db1"]
    /\ history = {}
    /\ calls = 0
    /\ DetIdle /\ FinIdle /\ ArcIdle /\ ResIdle /\ TileIdle /\ ConnIdle

FlagNext ==
    \/ FlagFinalize
    \/ PgTables
    \/ PgFunctions
    \/ PgJoin
    \/ FlagRoundTrip

SpecFlags == FlagInit /\ [][FlagNext]_vars

\* finalize sets both flags to "neither table_sources nor function_sources
\* was declared".
FlagsSetByFinalize ==
    pgConfig # None =>
        /\ pgConfig.discover_tables =
             (pgBuilder.table_sources = None /\ pgBuilder.function_sources = None)
        /\ pgConfig.discover_functions = pgConfig.discover_tables

\* C20: both discovery flags are true exactly when neither table_sources nor
\* function_sources was declared, and the config finalized from the persisted
\* resolved config has the same two flags.
C20_FlagsSurviveRoundTrip ==
    /\ FlagsSetByFinalize
    /\ pgReparsed # None =>
         /\ pgReparsed.val.tag = "Ok"
         /\ pgReparsed.val.val.discover_tables = pgConfig.discover_tables
         /\ pgReparsed.val.val.discover_functions = pgConfig.discover_functions

\* With declared sources the flags are false before and after the round trip.
DeclaredFlagsSurvive ==
    (pgReparsed # None
       /\ (pgBuilder.table_sources # None \/ pgBuilder.function_sources # None)) =>
         /\ pgReparsed.val.tag = "Ok"
         /\ ~pgReparsed.val.val.discover_tables /\ ~pgConfig.discover_tables
         /\ ~pgReparsed.val.val.discover_functions /\ ~pgConfig.discover_functions

\* ---------------------------------------------------------------------------
\* Tile requests of DB sources: one connection pool, requests that can be
\* cancelled at their suspension points
\* ---------------------------------------------------------------------------

MaxRequests == 3
MaxPoolSize == 2

Requests == 1..MaxRequests

\* the connections the pool opens, at most pool_size of them
Connections == 1..MaxPoolSize

\* a request's future: the point it is suspended at and the connection guard
\* it owns (get_tile itself only borrows it: conn: &mut Connection)
ConnTask(at, conn, out) == [at |-> at, conn |-> conn, out |-> out]

\* Dropping the future without returning the connection to the pool.
DropForgets(task, idle) == idle

\* Dropping a request's future, on return or on cancel: the guard it owns,
\* if any, returns its connection to the pool.
DropTask(task, idle) ==
    IF task.conn = None THEN idle ELSE idle \cup {task.conn.val}

\* A request arrives and awaits a connection.
ConnStart(r) ==
    /\ connTask[r].at = "idle"
    /\ connTask' = [connTask EXCEPT ![r] = ConnTask("acquire", None, "none")]
    /\ UNCHANGED <<connIdle, nonConnVars>>

\* Pool acquire completes (it stays suspended while the pool is saturated);
\* get_tile is called with the connection and suspends in query_one.
ConnAcquire(r) ==
    /\ connTask[r].at = "acquire"
    /\ \E c \in connIdle :
         /\ connIdle' = connIdle \ {c}
         /\ connTask' = [connTask EXCEPT ![r] = ConnTask("query", Some(c), "none")]
    /\ UNCHANGED nonConnVars

\* query_one completes, get_tile returns Ok or Err, and the request's future
\* is dropped.
ConnReturn(r) ==
    /\ connTask[r].at = "query"
    /\ \E reply \in DbReplies :
         LET out == table_get_tile("t", reply, Xyz(0, 0, 0))
         IN  connTask' = [connTask EXCEPT ![r] = ConnTask("done", None, out.tag)]
    /\ connIdle' = DropTask(connTask[r], connIdle)
    /\ UNCHANGED nonConnVars

\* The request is cancelled while it awaits the pool or the query.
ConnCancel(r) ==
    /\ connTask[r].at \in {"acquire", "query"}
    /\ connTask' = [connTask EXCEPT ![r] =
                      ConnTask("cancelled", None, connTask[r].at)]
    /\ connIdle' = DropTask(connTask[r], connIdle)
    /\ UNCHANGED nonConnVars

ConnInit ==
    /\ connIdle = Connections
    /\ connTask = [r \in Requests |-> ConnTask("idle", None, "none")]
    /\ IdrIdle /\ DetIdle /\ FinIdle /\ ArcIdle /\ PgIdle /\ FlagIdle /\ ResIdle
    /\ TileIdle

ConnNext ==
    \E r \in Requests :
        \/ ConnStart(r)
        \/ ConnAcquire(r)
        \/ ConnReturn(r)
        \/ ConnCancel(r)

SpecConn == ConnInit /\ [][ConnNext]_vars

\* the connections held by the requests that are in get_tile
HeldBy(r) == IF connTask[r].conn = None THEN {} ELSE {connTask[r].conn.val}

CheckedOut == Connections \ connIdle

\* C22: a connection is out of the pool only while a request in flight holds
\* it: a cancelled request holds none, no two requests hold the same one,
\* never more than the pool size are checked out, and when no request is in
\* flight all connections are in the pool.
C22_NoLeakOnCancel ==
    /\ CheckedOut = UNION {HeldBy(r) : r \in {q \in Requests : connTask[q].at = "query"}}
    /\ \A r \in Requests : connTask[r].at # "query" => HeldBy(r) = {}
    /\ \A r, q \in Requests : r # q => HeldBy(r) \cap HeldBy(q) = {}
    /\ Cardinality(CheckedOut) <= MaxPoolSize
    /\ (\A r \in Requests : connTask[r].at \notin {"acquire", "query"}) =>
           connIdle = Connections

\* C22 witness: a request was cancelled inside get_tile, another while it
\* waited for the saturated pool, and every connection is back in the pool.
C22_Witness ==
    /\ connTask[1].at = "cancelled" /\ connTask[1].out = "query"
    /\ connTask[2].at = "cancelled" /\ connTask[2].out = "acquire"
    /\ \A r \in Requests : connTask[r].at \notin {"acquire", "query"}
    /\ connIdle = Connections

\* ---------------------------------------------------------------------------
\* instantiate_tables on declared sources that are missing from the database,
\* have extent 0 or SRID 0, next to discovered columns
\* ---------------------------------------------------------------------------

TblDbColumns ==
    {TableInfo("public", "t", "g1", Wgs84, None),
     TableInfo("public", "t", "g2", Wgs84, None),
     TableInfo("public", "u", "g1", 0, None)}

TblDbFunctions == {FunctionInfo("public", "t")}

TblCfgTables ==
    {TableInfo("public", "t", "g1", Wgs84, None),
     TableInfo("public", "t", "g1", Wgs84, Some(0)),
     TableInfo("public", "missing", "g1", Wgs84, None),
     TableInfo("public", "missing", "g1", Wgs84, Some(0)),
     TableInfo("public", "u", "g1", 0, None)}

TblConfigs ==
    [tables             : Maps(CfgTableIds, TblCfgTables),
     functions          : {EmptyMap},
     default_srid       : {None, Some(DefaultSrid)},
     discover_tables    : BOOLEAN,
     discover_functions : BOOLEAN]

TblInit ==
    /\ pgConfig \in TblConfigs
    /\ pgDb \in [tables : SUBSET TblDbColumns, functions : SUBSET TblDbFunctions]
    /\ pgTask = [tables |-> PgQuery, functions |-> PgQuery]
    /\ pgOut = PgNotRun
    /\ pgRun = 1
    /\ pgFirst = None
    /\ names = EmptyNames
    /\ lock = NoOne
    /\ pc = [c \in Callers |-> "idle"]
    /\ req = [c \in Callers |-> NoReq]
    /\ ret = [c \in Callers |-> ""]
    /\ pool = [c \in PgCallers |-> "db1"]
    /\ history = {}
    /\ calls = 0
    /\ DetIdle /\ FinIdle /\ ArcIdle /\ FlagIdle /\ ResIdle /\ TileIdle /\ ConnIdle

TblNext ==
    \/ PgTables
    \/ PgFunctions
    \/ PgJoin

SpecTbl == TblInit /\ [][TblNext]_vars

\* the declared sources whose schema, table and geometry column are in the
\* discovered tree, and those for which one of them is missing
Present(cfg, all_tables) ==
    {id \in DOMAIN cfg.tables : find_info(all_tables, cfg.tables[id]) # None}

Missing(cfg, all_tables) == (DOMAIN cfg.tables) \ Present(cfg, all_tables)

\* the IDs the resolver can give to a requested ID: itself or a suffixed one
Suffixes(id) == {id} \cup {Suffixed(id, k) : k \in 1..MaxCalls}

\* the signatures bound in the resolver
BoundSignatures == {names[id] : id \in DOMAIN names}

\* C26: a declared table source that is missing from the discovered tree
\* binds no ID and yields no source, it does not make the tables future fail
\* whatever its other fields are, and the declared sources that are present
\* are still registered.
C26_MissingDeclaredSkipped ==
    pgTask.tables # PgQuery =>
        LET present == Present(pgConfig, pgDb.tables)
            missing == Missing(pgConfig, pgDb.tables)
        IN  /\ \A id \in missing :
                   pg_signature(PgPoolId, format_id(pgConfig.tables[id]))
                       \notin BoundSignatures
            /\ (\A id \in present : pgConfig.tables[id].extent # Some(0)) =>
                   pgTask.tables.tag = "Ok"
            /\ pgTask.tables.tag = "Ok" =>
                   /\ \A id \in missing :
                          IdsOf(pgTask.tables.val, pgConfig.tables[id]) = {}
                   /\ \A id \in present :
                          merge_table_info(pgConfig.default_srid, pgConfig.tables[id],
                                           find_info(pgDb.tables, pgConfig.tables[id]).val) # None
                            => Suffixes(id) \cap IdsOf(pgTask.tables.val,
                                                           pgConfig.tables[id]) # {}

\* A missing declared source whose extent is not 0 is skipped as C26 says.
MissingDeclaredSkippedUnlessExtentZero ==
    (pgTask.tables # PgQuery
       /\ \A id \in DOMAIN pgConfig.tables : pgConfig.tables[id].extent # Some(0)) =>
        /\ pgTask.tables.tag = "Ok"
        /\ \A id \in Missing(pgConfig, pgDb.tables) :
               /\ pg_signature(PgPoolId, format_id(pgConfig.tables[id]))
                      \notin BoundSignatures
               /\ IdsOf(pgTask.tables.val, pgConfig.tables[id]) = {}

\* C27: when a declared table source that is in the discovered tree has
\* extent 0, the tables future and the whole DB group fail with the
\* invalid-configuration error, and no source of the pool is returned.
C27_ExtentZeroFails ==
    (\E id \in Present(pgConfig, pgDb.tables) : pgConfig.tables[id].extent = Some(0)) =>
        /\ pgTask.tables # PgQuery => pgTask.tables = Err("extent=0")
        /\ pgOut # PgNotRun => pgOut = Err("extent=0")

\* C27 witness: the group has failed on a present source of extent 0 although
\* the functions future had a function to register.
C27_Witness ==
    /\ pgOut = Err("extent=0")
    /\ \E id \in Present(pgConfig, pgDb.tables) : pgConfig.tables[id].extent = Some(0)
    /\ pgTask.functions # PgQuery
    /\ DOMAIN pgTask.functions.val # {}

\* the declared sources that name the column `c`
DeclaredFor(cfg, c) ==
    {id \in DOMAIN cfg.tables : format_id(cfg.tables[id]) = format_id(c)}

C30_BoundIdsRegistered ==
    pgOut.tag = "Ok" =>
        DOMAIN names \subseteq (DOMAIN pgOut.val.tables) \cup (DOMAIN pgOut.val.functions)

====
